---- MODULE Spec2Model ----
(***************************************************************************)
(* JuniperMist/list_devices.py: the paginated device listing               *)
(* (get_all_devices), the grouping and printing of the result              *)
(* (display_devices) and the main block that calls one after the other.    *)
(*                                                                         *)
(* JSON values are tagged records: [t |-> "list", v |-> <<...>>],          *)
(* [t |-> "dict", o |-> <a record, one field per key>], [t |-> "str", ..], *)
(* [t |-> "int", ..], [t |-> "null"].  A string that the code splits (the  *)
(* Link header, a URL) is a sequence of tokens; the tokens "<", ">", ","   *)
(* and rel="next" are the only ones the code looks for.                    *)
(***************************************************************************)
EXTENDS Integers, Sequences, FiniteSets, TLC

VARIABLES
    pc,            \* where the process is: "loop", "returned", "done", "exit1", "crashed"
    url,           \* get_all_devices: url
    devices,       \* get_all_devices: devices
    link_header,   \* get_all_devices: link_header
    server,        \* the API server: what it answers at each URL once asked
    requests,      \* the URLs of the GET requests issued so far, in order
    pages,         \* the outcomes of those requests, in the same order
    device_types,  \* display_devices: device_types (a dict in insertion order)
    output         \* the lines printed so far

vars == <<pc, url, devices, link_header, server, requests, pages, device_types, output>>

----------------------------------------------------------------------------
(* Bounds *)

\* The longest run of GET requests followed.
MaxRequests == 4
\* The longest list of records in a page body.
MaxPageLen == 2
\* The longest collection handed to display_devices on its own.
MaxDevices == 3

----------------------------------------------------------------------------
(* Strings the code splits, as token sequences *)

LT == "<"
GT == ">"
COMMA == ","
SEMI == ";"
REL_NEXT == "rel=next"    \* the substring rel="next"
REL_PREV == "rel=prev"    \* the substring rel="prev"

\* None and '' are both falsy in `while url`; both are the empty sequence here.
None == <<>>

\* f"https://api.mist.com/api/v1/orgs/{org_id}/devices"
StartURL == <<"https://api.mist.com/api/v1/orgs/ORG_ID/devices">>
Page2URL == <<"https://api.mist.com/api/v1/orgs/ORG_ID/devices?page=2">>

\* sub in s   (sub is one token)
Contains(s, sub) == \E i \in 1..Len(s) : s[i] = sub

RECURSIVE Split(_, _)
\* s.split(sep): the pieces of s between the occurrences of sep; never empty.
Split(s, sep) ==
    IF ~Contains(s, sep) THEN <<s>>
    ELSE LET i == CHOOSE k \in 1..Len(s) :
                     s[k] = sep /\ \A j \in 1..(k - 1) : s[j] # sep
         IN  <<SubSeq(s, 1, i - 1)>> \o Split(SubSeq(s, i + 1, Len(s)), sep)

----------------------------------------------------------------------------
(* JSON values *)

Dict(o) == [t |-> "dict", o |-> o]
List(v) == [t |-> "list", v |-> v]
Null == [t |-> "null"]

\* Device records of the API, and one element that is no mapping.
ApA == Dict([type |-> "ap", name |-> "ap-a"])
ApB == Dict([type |-> "ap", name |-> "ap-b"])
Sw == Dict([type |-> "switch", name |-> "sw-a"])
NoType == Dict([name |-> "no-type"])
Str == [t |-> "str", s |-> "not-a-device"]

\* What a page may list, and what a collection may hold.
PageElements == {ApA, Sw, Str}
Elements == {ApA, ApB, Sw, NoType, Str}

\* The sequences over S of length at most n.
SeqsUpTo(S, n) == UNION {[1..k -> S] : k \in 0..n}

\* Page bodies: a bare list; a mapping with `data`, with `results`, with both, with
\* neither (one device); a mapping whose `data` is null; a number.
ListBodies == {List(v) : v \in SeqsUpTo(PageElements, MaxPageLen)}
DictBodies ==
    { Dict([data |-> List(<<ApA, Sw>>)]),
      Dict([results |-> List(<<Sw, ApA>>)]),
      Dict([data |-> List(<<ApA>>), results |-> List(<<Sw>>)]),
      Dict([type |-> "ap", name |-> "ap-b"]),
      Dict([data |-> Null]) }
OtherBodies == {[t |-> "int", n |-> 42]}
Bodies == ListBodies \cup DictBodies \cup OtherBodies
\* A body that is no JSON at all: response.json() raises.
NotJSON == [t |-> "invalid"]

----------------------------------------------------------------------------
(* Link headers *)

\* <u>; rel="next"
LinkNext(u) == <<LT>> \o u \o <<GT, SEMI, REL_NEXT>>
\* <u>; rel="prev"
LinkPrev(u) == <<LT>> \o u \o <<GT, SEMI, REL_PREV>>
\* <p>; rel="prev", <u>; rel="next"
LinkPrevNext(p, u) == LinkPrev(p) \o <<COMMA>> \o LinkNext(u)

\* u; rel="next"  (no delimiters)
LinkNoBrackets == Page2URL \o <<SEMI, REL_NEXT>>
\* <https://...?ids=1,2>; rel="next"  (a comma inside the URL)
LinkCommaURL == <<LT, "https://api.mist.com/api/v1/orgs/ORG_ID/devices?ids=1", COMMA, "2", GT, SEMI, REL_NEXT>>
\* <>; rel="next"
LinkEmptyURL == <<LT, GT, SEMI, REL_NEXT>>
\* <u; rel="next"  (no closing delimiter)
LinkNoClose == <<LT>> \o Page2URL \o <<SEMI, REL_NEXT>>

\* The header is absent: headers.get('Link', '') gives ''.
NoLink == <<>>

LinkHeaders ==
    { NoLink,
      LinkNext(StartURL), LinkNext(Page2URL),
      LinkPrev(StartURL),
      LinkPrevNext(StartURL, Page2URL),
      LinkNoBrackets, LinkCommaURL, LinkEmptyURL, LinkNoClose }

----------------------------------------------------------------------------
(* The API server *)

\* requests.get raised (connection refused, timeout, ...): no response at all.
RequestFailed == [t |-> "exception"]

\* A 200 answer carries any body and any Link header; the other statuses are tried
\* with one body, with and without a next page.
OtherStatusCodes == {300, 404, 500}

Responses ==
    {RequestFailed} \cup
    [t : {"response"}, status_code : {200},
     body : Bodies \cup {NotJSON}, link : LinkHeaders] \cup
    [t : {"response"}, status_code : OtherStatusCodes,
     body : {List(<<Sw>>)}, link : {NoLink, LinkNext(Page2URL)}]

\* The API serves the listing at StartURL and Page2URL; a request to any other URL
\* (one cut wrongly out of a Link header) fails or is answered 404.
KnownURLs == {StartURL, Page2URL}
Answers(u) ==
    IF u \in KnownURLs THEN Responses
    ELSE {RequestFailed} \cup {r \in Responses \ {RequestFailed} : r.status_code = 404}

\* The server has not been asked for this URL yet.
Unfetched == [t |-> "unfetched"]

----------------------------------------------------------------------------
(* get_all_devices *)

\* A raise_for_status that lets the 4xx statuses through.
RaiseForStatus_ServerErrorsOnly(status_code) == status_code >= 500 /\ status_code < 600

\* response.raise_for_status(): raises HTTPError for a 4xx or a 5xx status.
RaiseForStatus(status_code) == status_code >= 400 /\ status_code < 600

\* devices.extend(value): the items of a list; TypeError for a value that is not
\* iterable.
Extend(value) ==
    IF value.t = "list"
    THEN [flow |-> "next", items |-> value.v]
    ELSE [flow |-> "TypeError", items |-> <<>>]

\* The chain with the keys looked up in the other order: `results` before `data`.
Batch_ResultsFirst(batch) ==
    IF batch.t = "list" THEN Extend(batch)
    ELSE IF batch.t = "dict"
    THEN IF "results" \in DOMAIN batch.o THEN Extend(batch.o.results)
         ELSE IF "data" \in DOMAIN batch.o THEN Extend(batch.o.data)
         ELSE [flow |-> "next", items |-> <<batch>>]
    ELSE [flow |-> "break", items |-> <<>>]

\* The chain with a last branch that prints and goes on instead of breaking.
Batch_NoBreak(batch) ==
    IF batch.t = "list" THEN Extend(batch)
    ELSE IF batch.t = "dict"
    THEN IF "data" \in DOMAIN batch.o THEN Extend(batch.o.data)
         ELSE IF "results" \in DOMAIN batch.o THEN Extend(batch.o.results)
         ELSE [flow |-> "next", items |-> <<batch>>]
    ELSE [flow |-> "next", items |-> <<>>]

\* The isinstance chain: the records a page adds, and whether the loop goes on to
\* the Link header ("next"), breaks ("break") or dies ("TypeError").
Batch(batch) ==
    IF batch.t = "list" THEN Extend(batch)
    ELSE IF batch.t = "dict"
    THEN IF "data" \in DOMAIN batch.o THEN Extend(batch.o.data)
         ELSE IF "results" \in DOMAIN batch.o THEN Extend(batch.o.results)
         ELSE [flow |-> "next", items |-> <<batch>>]
    ELSE [flow |-> "break", items |-> <<>>]

\* A collection that each page replaces (devices = batch).
Accumulate_Replace(devs, items) == items

\* The collection after a page's records are added at its end (extend, append).
Accumulate(devs, items) == devs \o items

\* A loop test with a guard against URLs asked for before.
While_NotVisited(u) == u # None /\ \A i \in 1..Len(requests) : requests[i] # u

\* `while url:` goes round again for a URL that is neither None nor ''.
While(u) == u # None

\* The least element of a non-empty set of numbers.
Min(S) == CHOOSE m \in S : \A n \in S : m <= n

\* A parse that takes the URL of the header's first entry, whatever its rel.
NextURL_FirstEntry(h) ==
    IF Contains(h, REL_NEXT)
    THEN LET after == Split(Split(h, COMMA)[1], LT)
         IN  IF Len(after) < 2
             THEN [raised |-> TRUE, url |-> None]
             ELSE [raised |-> FALSE, url |-> Split(after[2], GT)[1]]
    ELSE [raised |-> FALSE, url |-> None]

\* The next URL taken from the Link header; raised: link.split('<')[1] found no
\* second piece (IndexError).
NextURL(h) ==
    IF Contains(h, REL_NEXT)
    THEN LET links == Split(h, COMMA)
             hits == {i \in 1..Len(links) : Contains(links[i], REL_NEXT)}
         IN  IF hits = {}
             THEN [raised |-> FALSE, url |-> None]
             ELSE LET link == links[Min(hits)]
                      after == Split(link, LT)
                  IN  IF Len(after) < 2
                      THEN [raised |-> TRUE, url |-> None]
                      ELSE [raised |-> FALSE, url |-> Split(after[2], GT)[1]]
    ELSE [raised |-> FALSE, url |-> None]

\* Every URL the loop can come to ask for.
URLs == {StartURL} \cup ({NextURL(h).url : h \in LinkHeaders} \ {None})

\* print(...) lines of get_all_devices
DebugResponseType(batch) == [k |-> "Debug: Response type", type |-> batch.t]
UnexpectedFormat(batch) == [k |-> "Unexpected response format", batch |-> batch]
ErrorFetching == [k |-> "Error fetching devices"]

\* except RequestException: print, sys.exit(1)
Exit1 ==
    /\ pc' = "exit1"
    /\ output' = Append(output, ErrorFetching)
    /\ UNCHANGED <<url, devices, link_header>>

\* An exception no handler catches: the traceback, exit status 1.
Crash(out) ==
    /\ pc' = "crashed"
    /\ output' = out
    /\ UNCHANGED <<url, link_header>>

\* One pass of the `while url:` loop, and the return when the loop ends.
Fetch(response) ==
    /\ pc = "loop"
    /\ Len(requests) < MaxRequests
    /\ response \in Answers(url)
    /\ server[url] \in {Unfetched, response}
    /\ server' = [server EXCEPT ![url] = response]
    /\ requests' = Append(requests, url)
    /\ pages' = Append(pages, response)
    /\ UNCHANGED device_types
    /\ IF response = RequestFailed
       THEN Exit1
       ELSE IF RaiseForStatus(response.status_code)
       THEN Exit1
       ELSE IF response.body = NotJSON
       THEN \* json() raises JSONDecodeError: a RequestException from requests 2.27
            \* on, a plain ValueError before
            \/ Exit1
            \/ Crash(output) /\ UNCHANGED devices
       ELSE LET batch == response.body
                got == Batch(batch)
                out == Append(output, DebugResponseType(batch))
                nxt == NextURL(response.link)
            IN  /\ devices' = Accumulate(devices, got.items)
                /\ IF got.flow = "TypeError"
                   THEN Crash(out)
                   ELSE IF got.flow = "break"
                   THEN /\ output' = Append(out, UnexpectedFormat(batch))
                        /\ pc' = "returned"
                        /\ UNCHANGED <<url, link_header>>
                   ELSE /\ link_header' = response.link
                        /\ IF nxt.raised
                           THEN /\ pc' = "crashed"
                                /\ output' = out
                                /\ UNCHANGED url
                           ELSE /\ url' = nxt.url
                                /\ output' = out
                                /\ pc' = IF While(nxt.url) THEN "loop" ELSE "returned"

----------------------------------------------------------------------------
(* display_devices *)

\* device.get(key, default)
Get(device, key, default) ==
    IF key \in DOMAIN device.o THEN device.o[key] ELSE default

\* str.upper()
Upper(s) ==
    CASE s = "ap" -> "AP"
      [] s = "switch" -> "SWITCH"
      [] s = "Unknown" -> "UNKNOWN"
      [] OTHER -> s

\* A grouping that puts a new type before the types seen so far.
AddDevice_NewestFirst(groups, device) ==
    LET device_type == IF "type" \in DOMAIN device.o THEN device.o.type ELSE "Unknown"
    IN  IF \E i \in 1..Len(groups) : groups[i].key = device_type
        THEN [i \in 1..Len(groups) |->
                 IF groups[i].key = device_type
                 THEN [groups[i] EXCEPT !.members = Append(@, device)]
                 ELSE groups[i]]
        ELSE <<[key |-> device_type, members |-> <<device>>]>> \o groups

\* One pass of the grouping loop for a mapping: device_types after it.  The dict
\* keeps its keys in insertion order: a sequence of [key, members].
AddDevice(groups, device) ==
    LET device_type == Get(device, "type", "Unknown")
    IN  IF \E i \in 1..Len(groups) : groups[i].key = device_type
        THEN [i \in 1..Len(groups) |->
                 IF groups[i].key = device_type
                 THEN [groups[i] EXCEPT !.members = Append(@, device)]
                 ELSE groups[i]]
        ELSE Append(groups, [key |-> device_type, members |-> <<device>>])

RECURSIVE GroupDevices(_)
\* The grouping loop over the whole collection: an element that is no mapping is
\* passed over (continue).
GroupDevices(devs) ==
    IF devs = <<>> THEN <<>>
    ELSE LET before == GroupDevices(SubSeq(devs, 1, Len(devs) - 1))
             device == devs[Len(devs)]
         IN  IF device.t # "dict" THEN before ELSE AddDevice(before, device)

\* print(...) lines of display_devices
NoDevicesFound == [k |-> "No devices found."]
Found(n) == [k |-> "Found n devices in the organization:", n |-> n]
Rule == [k |-> "rule"]
Blank == [k |-> "blank"]
DebugFirstType(device) == [k |-> "Debug: First device type", type |-> device.t]
DebugFirstKeys(device) == [k |-> "Debug: First device keys", keys |-> DOMAIN device.o]
Warning(device) == [k |-> "Warning: Unexpected device format", device |-> device]
Header(device_type, n) == [k |-> "header", type |-> Upper(device_type), n |-> n]
DeviceLine(device) ==
    [k |-> "device", name |-> Get(device, "name", "Unnamed"),
     model |-> Get(device, "model", "N/A"), mac |-> Get(device, "mac", "N/A"),
     status |-> Get(device, "status", "N/A")]
SerialLine(device) ==
    [k |-> "serial", serial |-> Get(device, "serial", "N/A"),
     site_id |-> Get(device, "site_id", "N/A")]

\* A grouping loop that passes over an element without a word.
WarningLines_Silent(devs) == <<>>

RECURSIVE WarningLines(_)
\* The warnings of the grouping loop, in the order of the collection.
WarningLines(devs) ==
    IF devs = <<>> THEN <<>>
    ELSE (IF Head(devs).t # "dict" THEN <<Warning(Head(devs))>> ELSE <<>>)
         \o WarningLines(Tail(devs))

RECURSIVE MemberLines(_)
\* The lines of the members of one group.
MemberLines(type_devices) ==
    IF type_devices = <<>> THEN <<>>
    ELSE <<DeviceLine(Head(type_devices)), SerialLine(Head(type_devices)), Blank>>
         \o MemberLines(Tail(type_devices))

RECURSIVE GroupLines(_)
\* The lines of the groups, in the order of device_types.items().
GroupLines(groups) ==
    IF groups = <<>> THEN <<>>
    ELSE <<Header(Head(groups).key, Len(Head(groups).members)), Rule>>
         \o MemberLines(Head(groups).members)
         \o GroupLines(Tail(groups))

\* Everything display_devices prints for a non-empty collection.
DisplayLines(devs) ==
    <<Found(Len(devs)), Rule, DebugFirstType(devs[1])>>
    \o (IF devs[1].t = "dict" THEN <<DebugFirstKeys(devs[1])>> ELSE <<>>)
    \o WarningLines(devs)
    \o GroupLines(GroupDevices(devs))

\* The main block's second call, display_devices(devices), and the end of the process.
Display ==
    /\ pc = "returned"
    /\ pc' = "done"
    /\ IF devices = <<>>
       THEN /\ output' = Append(output, NoDevicesFound)
            /\ UNCHANGED device_types
       ELSE /\ device_types' = GroupDevices(devices)
            /\ output' = output \o DisplayLines(devices)
    /\ UNCHANGED <<url, devices, link_header, server, requests, pages>>

----------------------------------------------------------------------------
(* The process *)

\* The main block has called get_all_devices(ORG_ID, headers): devices = [], url set.
Init ==
    /\ pc = "loop"
    /\ url = StartURL
    /\ devices = <<>>
    /\ link_header = NoLink
    /\ server = [u \in URLs |-> Unfetched]
    /\ requests = <<>>
    /\ pages = <<>>
    /\ device_types = <<>>
    /\ output = <<>>

\* A request to a URL the server has not been asked for: it answers as it likes.
FetchNew ==
    /\ pc = "loop"
    /\ server[url] = Unfetched
    /\ \E response \in Responses : Fetch(response)

\* A request to a URL asked for before: the server answers as it did.
FetchAgain ==
    /\ pc = "loop"
    /\ server[url] # Unfetched
    /\ Fetch(server[url])

Next ==
    \/ FetchNew
    \/ FetchAgain
    \/ Display

Spec == Init /\ [][Next]_vars

\* The steps of FetchAgain, told by the request they add: it is enabled exactly
\* when FetchAgain is.
RepeatRequest ==
    /\ pc = "loop"
    /\ server[url] # Unfetched
    /\ Len(requests) < MaxRequests
    /\ requests' = Append(requests, url)

\* The process is sequential and nothing stops it: a request it is about to repeat,
\* it issues.
FairSpec == Spec /\ WF_requests(RepeatRequest)

\* display_devices on its own, for every collection up to MaxDevices elements.
InitDisplay ==
    /\ pc = "returned"
    /\ url = None
    /\ devices \in SeqsUpTo(Elements, MaxDevices)
    /\ link_header = NoLink
    /\ server = [u \in URLs |-> Unfetched]
    /\ requests = <<>>
    /\ pages = <<>>
    /\ device_types = <<>>
    /\ output = <<>>

NextDisplay == Display

SpecDisplay == InitDisplay /\ [][NextDisplay]_vars

\* The exit status of the process once it has ended.
ExitStatus ==
    CASE pc = "done" -> 0
      [] pc \in {"exit1", "crashed"} -> 1
      [] OTHER -> -1

----------------------------------------------------------------------------
(* The terms of the claims *)

Range(s) == {s[i] : i \in 1..Len(s)}
Last(s) == s[Len(s)]

\* A successful page: an HTTP response with a 2xx status and a JSON body.
Successful(r) ==
    r.t = "response" /\ r.status_code \in 200..299 /\ r.body # NotJSON

\* A page whose body the code got to classify.
Parsed(r) ==
    r.t = "response" /\ r.status_code \notin 400..599 /\ r.body # NotJSON

\* The value a mapping page's records are taken from is a sequence.
SequenceAt(body, key) == key \in DOMAIN body.o /\ body.o[key].t = "list"

\* A page of a recognised shape, and its records as the specification's
\* algorithm (4.1, step 2c) gives them.
WellShaped(body) ==
    \/ body.t = "list"
    \/ /\ body.t = "dict"
       /\ \/ SequenceAt(body, "data")
          \/ "data" \notin DOMAIN body.o /\ SequenceAt(body, "results")
          \/ "data" \notin DOMAIN body.o /\ "results" \notin DOMAIN body.o

MappingRecords(body) ==
    IF "data" \in DOMAIN body.o THEN body.o.data.v
    ELSE IF "results" \in DOMAIN body.o THEN body.o.results.v
    ELSE <<body>>

PageRecords(body) == IF body.t = "list" THEN body.v ELSE MappingRecords(body)

RECURSIVE ConcatRecords(_)
\* The records of the pages ps, page after page.
ConcatRecords(ps) ==
    IF ps = <<>> THEN <<>>
    ELSE ConcatRecords(SubSeq(ps, 1, Len(ps) - 1)) \o PageRecords(Last(ps).body)

\* The header has an entry <u>; rel="next", alone or after a rel="prev" entry.
PointsTo(h, u) == h = LinkNext(u) \/ \E p \in KnownURLs : h = LinkPrevNext(p, u)
HasNext(h) == \E u \in KnownURLs : PointsTo(h, u)
NextTarget(h) == CHOOSE u \in KnownURLs : PointsTo(h, u)
NoNextEntry(h) == ~Contains(h, REL_NEXT)

\* The run has ended without an error: get_all_devices has returned.
Returned == pc \in {"returned", "done"}

\* The lines of the output of kind k.
LinesOf(k) ==
    LET IsK(line) == line.k = k
    IN  SelectSeq(output, IsK)

----------------------------------------------------------------------------
(* C1 *)

\* Every page so far is successful and of a recognised shape, and every page but
\* the last names the page after it.
ChainSoFar ==
    /\ Len(pages) >= 1
    /\ \A i \in 1..Len(pages) :
          /\ Successful(pages[i]) /\ WellShaped(pages[i].body)
          /\ i < Len(pages) => HasNext(pages[i].link)

\* C1: over a chain of K successful pages, each but the last naming the next in
\* its Link header and the last with no rel="next" entry, get_all_devices issues
\* exactly K requests, the first to the organisation's device listing and each later
\* one to the URL of the page before, and returns the pages' records concatenated
\* in page order, each page's items in their order; while the last page so far
\* still names a next page, the loop is about to ask for exactly that page.
C1_PaginatedChain ==
    ChainSoFar =>
        LET K == Len(pages)
        IN  /\ Len(requests) = K
            /\ requests[1] = StartURL
            /\ \A i \in 1..(K - 1) : requests[i + 1] = NextTarget(pages[i].link)
            /\ devices = ConcatRecords(pages)
            /\ NoNextEntry(pages[K].link) => Returned /\ url = None
            /\ HasNext(pages[K].link) =>
                  pc = "loop" /\ url = NextTarget(pages[K].link)

\* Two pages, the first a bare list of two different records, have been returned.
C1_Witness ==
    /\ pc = "returned" /\ ChainSoFar /\ Len(pages) = 2
    /\ pages[1].body = List(<<Sw, ApA>>) /\ pages[2].body = List(<<ApA, Str>>)
    /\ NoNextEntry(pages[2].link)

\* One page, a bare list, no Link header: one request, exactly its records.
C1_WitnessOnePage ==
    /\ pc = "returned" /\ Len(requests) = 1
    /\ pages[1].status_code = 200 /\ pages[1].body = List(<<ApA, Sw>>)
    /\ pages[1].link = NoLink /\ devices = <<ApA, Sw>>

----------------------------------------------------------------------------
(* C2 *)

\* The request failed at the network level, or was answered with a status the
\* claim calls a failure.
FailedNon2xx(r) == r = RequestFailed \/ r.status_code \notin 200..299
Failed4xx5xx(r) == r = RequestFailed \/ r.status_code \in 400..599

\* What the claim promises after the failure of request i.
FatalAt(i) ==
    /\ pc = "exit1" /\ ExitStatus = 1
    /\ Len(requests) = i
    /\ device_types = <<>>
    /\ \A j \in 1..Len(output) :
          output[j].k \in {"Debug: Response type", "Error fetching devices"}

\* C2 as stated: a request that fails at the network level or is answered with a
\* status that is not 2xx ends the process at once with a non-zero exit status; no
\* request follows, get_all_devices does not return, display_devices gets nothing.
C2_Non2xxIsFatal ==
    \A i \in 1..Len(pages) : FailedNon2xx(pages[i]) => FatalAt(i)

\* C2, amended: the same for a request that fails at the network level or is
\* answered with a 4xx or 5xx status.
C2_ErrorStatusIsFatal ==
    \A i \in 1..Len(pages) : Failed4xx5xx(pages[i]) => FatalAt(i)

\* The second page is answered 500 after a first page that brought records.
C2_Witness ==
    /\ pc = "exit1" /\ Len(pages) = 2 /\ devices # <<>>
    /\ pages[2] # RequestFailed /\ pages[2].status_code = 500

----------------------------------------------------------------------------
(* C3 *)

\* This step has received a page, and its body was parsed.
PageParsed == pages' # pages /\ Parsed(Last(pages'))

----------------------------------------------------------------------------
(* C4 *)

\* The header has a rel="next" entry, but none of the form <u>; rel="next".
MalformedNext(h) == Contains(h, REL_NEXT) /\ ~HasNext(h)

\* C4 as stated: after a successful page whose Link header is absent, has no
\* rel="next" entry or has a malformed one, the URL is empty, no request follows
\* and the collection is returned.
C4_NoUsableNextEndsLoop ==
    \A i \in 1..Len(pages) :
        ( /\ Successful(pages[i]) /\ WellShaped(pages[i].body)
          /\ NoNextEntry(pages[i].link) \/ MalformedNext(pages[i].link) )
        => i = Len(pages) /\ Returned /\ url = None

----------------------------------------------------------------------------
(* C5 and C9 *)

\* A body that is neither a sequence nor a mapping.
Unexpected(body) == body.t \notin {"list", "dict"}

\* C5 as stated: a page of unexpected shape is logged and skipped and the next
\* page, when the response names one, is still requested.
C5_SkippedPageContinues ==
    \A i \in 1..Len(pages) :
        (Parsed(pages[i]) /\ Unexpected(pages[i].body) /\ HasNext(pages[i].link))
        => /\ UnexpectedFormat(pages[i].body) \in Range(output)
           /\ IF i = Len(pages)
              THEN pc = "loop" /\ url = NextTarget(pages[i].link)
              ELSE requests[i + 1] = NextTarget(pages[i].link)

\* C5, amended: a page of unexpected shape is logged as a warning, once, and
\* skipped, and pagination ends with it: no page is requested after it, also when
\* its response names a next page.
C5_SkippedPageEndsPagination ==
    \A i \in 1..Len(pages) :
        (Parsed(pages[i]) /\ Unexpected(pages[i].body))
        => /\ LinesOf("Unexpected response format") = <<UnexpectedFormat(pages[i].body)>>
           /\ i = Len(pages) /\ Len(requests) = i
           /\ Returned

\* The process has ended after a second page of unexpected shape that named a next
\* page.
C5_Witness ==
    /\ pc = "done" /\ Len(pages) = 2 /\ Parsed(pages[2])
    /\ Unexpected(pages[2].body) /\ pages[2].link = LinkNext(StartURL)
    /\ requests = <<StartURL, Page2URL>>

\* C9: when a page's parsed body is neither a sequence nor a mapping, the page adds
\* no record, its Link header is not read, the URL is left as it is and
\* get_all_devices returns; after the return no request is issued and the
\* collection stays what the earlier pages made it, and the process ends normally.
C9_UnexpectedPageStops ==
    [][ /\ (PageParsed /\ Unexpected(Last(pages').body))
           => /\ devices' = devices /\ link_header' = link_header /\ url' = url
              /\ pc' = "returned"
        /\ Returned => requests' = requests /\ devices' = devices /\ pc' = "done"
      ]_vars

\* get_all_devices has returned the first page's records after a second page of
\* unexpected shape, whose Link header it did not read.
C9_Witness ==
    /\ pc = "returned" /\ Len(pages) = 2
    /\ pages[1].body = List(<<ApA, Sw>>) /\ pages[1].link = LinkPrevNext(StartURL, Page2URL)
    /\ Unexpected(pages[2].body) /\ pages[2].link = LinkNext(Page2URL)
    /\ devices = <<ApA, Sw>> /\ link_header = pages[1].link

----------------------------------------------------------------------------
(* C10 *)

\* s is a prefix of t.
IsPrefix(s, t) == Len(s) <= Len(t) /\ SubSeq(t, 1, Len(s)) = s

\* C10: the collection starts empty and every step leaves it a prefix of what it
\* becomes: records are added at the end, none is removed, replaced or moved.
C10_CollectionOnlyGrows ==
    /\ devices = <<>>
    /\ [][IsPrefix(devices, devices')]_vars

\* Two pages have each added records.
C10_Witness ==
    /\ Len(pages) = 2 /\ Parsed(pages[1]) /\ Parsed(pages[2]) /\ pages[1].body = List(<<Sw>>)
    /\ pages[2].body = Dict([results |-> List(<<Sw, ApA>>)])
    /\ devices = <<Sw, Sw, ApA>>

----------------------------------------------------------------------------
(* C8 *)

\* Every response so far is successful, of a recognised shape and names a next
\* page, and one of them names a URL already asked for: the links form a cycle.
CyclicLinks ==
    /\ \A i \in 1..Len(pages) :
          Successful(pages[i]) /\ WellShaped(pages[i].body) /\ HasNext(pages[i].link)
    /\ \E i \in 1..Len(pages) :
          NextTarget(pages[i].link) \in {requests[j] : j \in 1..i}

\* C8: once the links of successful, well-formed responses form a cycle,
\* get_all_devices never returns: the loop is always about to request again, every
\* request it issues goes to the URL the last response named and adds that page's
\* records to the collection once more, and requests go on being issued (here: up
\* to MaxRequests).
C8_CycleNeverReturns ==
    /\ [](CyclicLinks => pc = "loop" /\ url = NextTarget(Last(pages).link))
    /\ [][ CyclicLinks
           => /\ CyclicLinks'
              /\ requests' = Append(requests, url)
              /\ Last(pages') = server[url]
              /\ devices' = devices \o PageRecords(server[url].body) ]_vars
    /\ (CyclicLinks ~> (CyclicLinks /\ Len(requests) = MaxRequests))

\* The listing's first page names the second and the second names the first; the
\* first page has been fetched and added a second time.
C8_Witness ==
    /\ CyclicLinks /\ requests = <<StartURL, Page2URL, StartURL>>
    /\ pages[1].body = List(<<ApA>>) /\ pages[2].body = List(<<Sw>>)
    /\ devices = <<ApA, Sw, ApA>> /\ pc = "loop"

----------------------------------------------------------------------------
(* C6 and C7 *)

IsMapping(d) == d.t = "dict"
IsNoMapping(d) == ~IsMapping(d)

\* The group a mapping belongs to: its `type`, or Unknown without one.
TypeKey(d) == IF "type" \in DOMAIN d.o THEN d.o.type ELSE "Unknown"

\* The mappings of type key k among devs, in the order of devs.
OfType(devs, k) ==
    LET IsK(d) == IsMapping(d) /\ TypeKey(d) = k
    IN  SelectSeq(devs, IsK)

RECURSIVE SumCounts(_)
\* The sum of the member counts that the header lines print.
SumCounts(headers) ==
    IF headers = <<>> THEN 0 ELSE Head(headers).n + SumCounts(Tail(headers))

\* C6: display_devices puts no element that is not a mapping into any group and
\* prints one warning for each such element (in the order of the collection);
\* every mapping has exactly one group for its type key (`type`, or Unknown
\* without it), each group holds exactly the mappings of its key, each once, and
\* the printed counts and the printed device lines add up to the number of
\* mappings.
C6_NonMappingsExcluded ==
    pc = "done" =>
        LET excluded == SelectSeq(devices, IsNoMapping)
            mappings == SelectSeq(devices, IsMapping)
        IN  /\ \A g \in 1..Len(device_types) :
                  /\ \A j \in 1..Len(device_types[g].members) :
                        IsMapping(device_types[g].members[j])
                  /\ device_types[g].members = OfType(devices, device_types[g].key)
            /\ Len(LinesOf("Warning: Unexpected device format")) = Len(excluded)
            /\ \A i \in 1..Len(excluded) :
                  LinesOf("Warning: Unexpected device format")[i].device = excluded[i]
            /\ \A i \in 1..Len(mappings) :
                  Cardinality({g \in 1..Len(device_types) :
                                  device_types[g].key = TypeKey(mappings[i])}) = 1
            /\ SumCounts(LinesOf("header")) = Len(mappings)
            /\ Len(LinesOf("device")) = Len(mappings)

\* A collection that starts with an element that is no mapping, followed by a
\* device with a type and one without, has been displayed.
C6_Witness ==
    pc = "done" /\ devices = <<Str, ApA, NoType>>

RECURSIVE FirstSeen(_)
\* The type keys of the mappings of devs, each at its first occurrence.
FirstSeen(devs) ==
    IF devs = <<>> THEN <<>>
    ELSE LET before == FirstSeen(SubSeq(devs, 1, Len(devs) - 1))
             d == Last(devs)
         IN  IF IsNoMapping(d) \/ TypeKey(d) \in Range(before)
             THEN before
             ELSE Append(before, TypeKey(d))

\* The type keys in capitals.
UpperCased(k) ==
    CASE k = "ap" -> "AP"
      [] k = "switch" -> "SWITCH"
      [] k = "Unknown" -> "UNKNOWN"

NameOf(d) == IF "name" \in DOMAIN d.o THEN d.o.name ELSE "Unnamed"

RECURSIVE NamesByGroup(_, _)
\* The names of the mappings of devs, group after group in the order of keys, each
\* group in the order of devs.
NamesByGroup(devs, keys) ==
    IF keys = <<>> THEN <<>>
    ELSE LET members == OfType(devs, Head(keys))
         IN  [i \in 1..Len(members) |-> NameOf(members[i])]
             \o NamesByGroup(devs, Tail(keys))

\* C7: display_devices presents the groups in the order in which their type keys
\* first occur in the collection, prints for each group its type in capitals and
\* the number of its members, and lists the members of each group in their order
\* in the collection; types ap, ap, switch give AP with 2 and then SWITCH with 1.
C7_GroupsInFirstSeenOrder ==
    pc = "done" =>
        LET keys == FirstSeen(devices)
            headers == LinesOf("header")
            lines == LinesOf("device")
        IN  /\ Len(device_types) = Len(keys)
            /\ Len(headers) = Len(keys)
            /\ \A g \in 1..Len(keys) :
                  /\ device_types[g].key = keys[g]
                  /\ device_types[g].members = OfType(devices, keys[g])
                  /\ headers[g].type = UpperCased(keys[g])
                  /\ headers[g].n = Len(OfType(devices, keys[g]))
            /\ [i \in 1..Len(lines) |-> lines[i].name] = NamesByGroup(devices, keys)
            /\ devices = <<ApA, ApB, Sw>> =>
                  /\ headers = <<[k |-> "header", type |-> "AP", n |-> 2],
                                 [k |-> "header", type |-> "SWITCH", n |-> 1]>>
                  /\ [i \in 1..Len(lines) |-> lines[i].name] = <<"ap-a", "ap-b", "sw-a">>

\* The collection ap, ap, switch has been displayed.
C7_Witness ==
    pc = "done" /\ devices = <<ApA, ApB, Sw>>

\* A collection whose groups interleave has been displayed: switch, ap, switch.
C7_WitnessInterleaved ==
    pc = "done" /\ devices = <<Sw, ApB, Sw>> /\ Len(device_types) = 2

====
